---- MODULE Spec2Model ----
(***************************************************************************)
(* A model of the lmnn class of src/dlmnn/unused/LMNN_old.py: the target   *)
(* neighbour finder, the imposter finder, the loss and the training loop.  *)
(* Point indices are 0-based as in the source; tables (tN, tup) are        *)
(* sequences of rows, row r of the source being element r+1.               *)
(***************************************************************************)
EXTENDS Integers, Sequences, FiniteSets, TLC

\* ------------------------------------------------------------------ bounds
MaxN == 4
MaxK == 2

\* Feature values of the (flattened, projected) observations and class labels.
\* Labels are int32 (fit, line 207); the two large ones differ as int32 and
\* coincide once cast to float32 (line 119).
Pos == {0, 1, 2}
ClassLabels == {0, 1}
Labels == {0, 16777216, 16777217}

VARIABLES
    X,        \* features, [0..N-1 -> Int]
    y,        \* labels,   [0..N-1 -> Int]
    k,        \* number of target neighbours
    tnOut,    \* what findTargetNeighbours gave: [status, tN]
    L,        \* the transformer's trainable parameter
    margin,   \* self.margin
    impOut,   \* what tf_findImposters gave: [status, tup]
    lossOut,  \* what tf_LMNN_loss was given and gave:
              \* [status, tup, mu2, loss2, D_pull, D_tn, D_im]
    args,     \* the other arguments of fit: [mu2, maxEpoch, batch_size, snapshot, val_set]
    pc,       \* where fit is
    e,        \* the epoch loop variable (line 261)
    b,        \* the batch loop variable (lines 268 and 307)
    tN,       \* fit's training table, as last permuted (line 265)
    tnValOut, \* what findTargetNeighbours gave for the validation split
    tN_val,   \* fit's validation table, as last permuted (line 306)
    global_step,  \* the optimizer's step counter (line 226)
    stats,    \* the stats collector
    saved,    \* how often save_weights ran (line 344)
    lastRun,  \* the last batch: what was fed (lines 272-277, 308-313) and fetched
    fed,      \* the slices fed to the training batches of this epoch, joined
    valEpochs \* the epochs whose validation pass ran

callVars == <<impOut, lossOut>>

fitVars == <<args, pc, e, b, tN, tnValOut, tN_val, global_step, stats, saved,
             lastRun, fed, valEpochs>>

vars == <<X, y, k, tnOut, L, margin, impOut, lossOut, args, pc, e, b, tN,
          tnValOut, tN_val, global_step, stats, saved, lastRun, fed, valEpochs>>

\* ------------------------------------------------------------ numpy helpers
Abs(a) == IF a < 0 THEN -a ELSE a

Min2(a, c) == IF a <= c THEN a ELSE c

SetMin(S) == CHOOSE a \in S : \A c \in S : a <= c

RECURSIVE SortedSeq(_)
SortedSeq(S) ==
    IF S = {} THEN <<>>
    ELSE LET m == SetMin(S) IN <<m>> \o SortedSeq(S \ {m})

RECURSIVE Concat(_)
Concat(ss) == IF ss = <<>> THEN <<>> ELSE Head(ss) \o Concat(Tail(ss))

NumPoints(yy) == Cardinality(DOMAIN yy)

\* np.unique(y): the sorted distinct labels
NpUnique(yy) == SortedSeq({yy[i] : i \in DOMAIN yy})

\* np.where(y == c)[0]: the indices of class c, ascending
NpWhere(yy, c) == SortedSeq({i \in DOMAIN yy : yy[i] = c})

\* -------------------------------------------------- sklearn NearestNeighbors
\* kneighbors refuses a query for more neighbours than fitted samples
\* (ValueError: Expected n_neighbors <= n_samples).
InsufficientSamplesOffByOne(n_neighbors, n_samples) == n_neighbors > n_samples + 1

InsufficientSamples(n_neighbors, n_samples) == n_neighbors > n_samples

\* distance between members a and b (1-based positions in idx) of one class
LocalDist(XX, idx, a, c) == Abs(XX[idx[a]] - XX[idx[c]])

\* s is a possible row of `indices` for query q: distinct members, in order of
\* non-decreasing distance from q, none nearer left out.  The order among
\* members at equal distance (the query itself included) is the library's.
IsNeighbourList(XX, idx, q, s) ==
    /\ \A a, c \in DOMAIN s : a < c =>
          /\ s[a] # s[c]
          /\ LocalDist(XX, idx, q, s[a]) <= LocalDist(XX, idx, q, s[c])
    /\ \A o \in DOMAIN idx :
          (\A a \in DOMAIN s : s[a] # o) =>
              \A a \in DOMAIN s : LocalDist(XX, idx, q, s[a]) <= LocalDist(XX, idx, q, o)

NeighbourLists(XX, idx, q, n) ==
    {s \in [1..Min2(n, Len(idx)) -> DOMAIN idx] : IsNeighbourList(XX, idx, q, s)}

\* the distinct coordinates of one class, ascending
Coords(XX, idx) == SortedSeq({XX[idx[m]] : m \in DOMAIN idx})

\* a member of the class lying at coordinate p
MemberAt(XX, idx, p) == CHOOSE m \in DOMAIN idx : XX[idx[m]] = p

\* the position of p in the ascending sequence coords
CoordIndex(coords, p) == CHOOSE j \in DOMAIN coords : coords[j] = p

\* one neighbour list per distinct query coordinate, aligned with coords
RECURSIVE ListsPerCoord(_, _, _, _, _)
ListsPerCoord(XX, idx, n, coords, j) ==
    IF j > Len(coords) THEN {<<>>}
    ELSE {<<s>> \o rest :
             s \in NeighbourLists(XX, idx, MemberAt(XX, idx, coords[j]), n),
             rest \in ListsPerCoord(XX, idx, n, coords, j + 1)}

\* every `indices` matrix kneighbors(x) may return for one class (line 413):
\* row m is the list for member m.  The library answers a query from the
\* query's coordinates, so coinciding queries get the same list.
KNeighbors(XX, idx, n) ==
    LET coords == Coords(XX, idx)
    IN  {[m \in 1..Len(idx) |-> byCoord[CoordIndex(coords, XX[idx[m]])]] :
            byCoord \in ListsPerCoord(XX, idx, n, coords, 1)}

\* ---------------------------------------------------- findTargetNeighbours
\* lines 415-416 for one member m and one rank kk, using the member position
\* as if it were the observation index
TNRowLocal(idx, indices, m, kk) ==
    IF kk + 1 <= Len(indices[m])
    THEN <<indices[m][1] - 1, indices[m][kk + 1] - 1>>
    ELSE <<0, 0>>

\* lines 415-416 for one member m and one rank kk; a row that is not written
\* keeps the zeros of line 402
TNRow(idx, indices, m, kk) ==
    IF kk + 1 <= Len(indices[m])
    THEN <<idx[indices[m][1]], idx[indices[m][kk + 1]]>>
    ELSE <<0, 0>>

\* lines 414-417: the rows of one class, rank by rank
ClassRows(idx, indices, kk_max) ==
    Concat([kk \in 1..kk_max |-> [m \in 1..Len(idx) |-> TNRow(idx, indices, m, kk)]])

\* one choice of `indices` per class, as a sequence aligned with np.unique(y)
RECURSIVE IndicesPerClass(_, _, _, _, _)
IndicesPerClass(XX, yy, kk, val, c) ==
    IF c > Len(val) THEN {<<>>}
    ELSE {<<ind>> \o rest : ind \in KNeighbors(XX, NpWhere(yy, val[c]), kk + 1),
                            rest \in IndicesPerClass(XX, yy, kk, val, c + 1)}

\* lines 399-421 given the library's answers
TargetNeighbourTable(yy, kk, allInd) ==
    LET val == NpUnique(yy)
    IN  Concat([c \in 1..Len(val) |-> ClassRows(NpWhere(yy, val[c]), allInd[c], kk)])

\* line 413 raises for some class
KNeighborsRaises(yy, kk) ==
    \E c \in {yy[i] : i \in DOMAIN yy} :
        InsufficientSamples(kk + 1, Len(NpWhere(yy, c)))

\* every outcome of findTargetNeighbours(X, y, k)
FindTargetNeighboursOutcomes(XX, yy, kk) ==
    IF KNeighborsRaises(yy, kk)
    THEN {[status |-> "ValueError", tN |-> <<>>]}
    ELSE {[status |-> "ok", tN |-> TargetNeighbourTable(yy, kk, allInd)] :
             allInd \in IndicesPerClass(XX, yy, kk, NpUnique(yy), 1)}

\* ------------------------------------------------------- tensorflow helpers
RECURSIVE BitLength(_)
BitLength(n) == IF n = 0 THEN 0 ELSE 1 + BitLength(n \div 2)

RECURSIVE Pow2(_)
Pow2(n) == IF n = 0 THEN 1 ELSE 2 * Pow2(n - 1)

\* tf.cast(n, tf.float32) of an int32 n, as the integer the float equals:
\* 24 significant bits, round to nearest, ties to even
CastFloat32(n) ==
    LET a    == Abs(n)
        bits == BitLength(a)
        ulp  == IF bits > 24 THEN Pow2(bits - 24) ELSE 1
        q    == a \div ulp
        r    == a % ulp
        up   == 2 * r > ulp \/ (2 * r = ulp /\ q % 2 = 1)
        v    == IF up THEN (q + 1) * ulp ELSE q * ulp
    IN  IF n < 0 THEN -v ELSE v

\* tf.cast(f, tf.int32) of a float32 holding an integer of int32 range
CastInt32(f) == f

SeqSum(s) ==
    LET RECURSIVE Upto(_)
        Upto(n) == IF n = 0 THEN 0 ELSE s[n] + Upto(n - 1)
    IN  Upto(Len(s))

\* tf.boolean_mask: the rows whose mask is TRUE, in order
SelectRows(rows, mask) ==
    LET RECURSIVE From(_)
        From(r) == IF r > Len(rows) THEN <<>>
                   ELSE (IF mask[r] THEN <<rows[r]>> ELSE <<>>) \o From(r + 1)
    IN  From(1)

\* ------------------------------------------------------------ distance engine
\* the transformer: one trainable weight scaling a one-dimensional feature
Transformer(w, x) == w * x

\* metric_func(X, X): the matrix of squared distances between the transformed
\* observations
MetricFunc(w, XX) ==
    [i \in DOMAIN XX |-> [j \in DOMAIN XX |->
        (Transformer(w, XX[i]) - Transformer(w, XX[j])) * (Transformer(w, XX[i]) - Transformer(w, XX[j]))]]

\* -------------------------------------------------------- tf_findImposters
\* lines 107-110: every [observation, target neighbour, candidate] combination,
\* the N candidates of a table row after one another
FullIdx(n, tNb) ==
    [r \in 1..(Len(tNb) * n) |->
        <<tNb[((r - 1) \div n) + 1][1], tNb[((r - 1) \div n) + 1][2], (r - 1) % n>>]

\* lines 120-121 without the margin test
ImposterCondNoMargin(DD, yy, mg, row) ==
    ~(CastFloat32(yy[row[2]]) = CastFloat32(yy[row[3]]))

\* lines 120-121 without the logical_not around the label comparison
ImposterCondSameLabel(DD, yy, mg, row) ==
    /\ DD[row[1]][row[3]] <= mg + DD[row[1]][row[2]]
    /\ CastFloat32(yy[row[2]]) = CastFloat32(yy[row[3]])

\* lines 119-121: the margin test and the label test, the labels cast to
\* float32 first
ImposterCond(DD, yy, mg, row) ==
    /\ DD[row[1]][row[3]] <= mg + DD[row[1]][row[2]]
    /\ ~(CastFloat32(yy[row[2]]) = CastFloat32(yy[row[3]]))

\* lines 120-121 without the label test
ImposterMaskNoLabels(DD, yy, mg, full) ==
    [r \in DOMAIN full |-> DD[full[r][1]][full[r][3]] <= mg + DD[full[r][1]][full[r][2]]]

ImposterMask(DD, yy, mg, full) ==
    [r \in DOMAIN full |-> ImposterCond(DD, yy, mg, full[r])]

\* lines 100-125
FindImposters(w, XX, yy, tNb, mg) ==
    LET DD     == MetricFunc(w, XX)
        full   == FullIdx(NumPoints(yy), tNb)
        cond   == ImposterMask(DD, yy, mg, full)
        asF32  == [r \in DOMAIN full |-> [c \in 1..3 |-> CastFloat32(full[r][c])]]
        masked == SelectRows(asF32, cond)
    IN  [r \in DOMAIN masked |-> [c \in 1..3 |-> CastInt32(masked[r][c])]]

\* ------------------------------------------------------------ tf_LMNN_loss
\* line 165 with each violation clamped at zero
PushLossHinge(mg, D_tn, D_im) ==
    SeqSum([r \in DOMAIN D_tn |->
               IF mg + D_tn[r] - D_im[r] > 0 THEN mg + D_tn[r] - D_im[r] ELSE 0])

\* line 165
PushLoss(mg, D_tn, D_im) == SeqSum([r \in DOMAIN D_tn |-> mg + D_tn[r] - D_im[r]])

\* line 168 with the two weights exchanged
TotalLossSwapped(mu2, pull_loss, push_loss) == mu2 * pull_loss + (2 - mu2) * push_loss

\* line 168, mu given in halves (mu = mu2 / 2) and the loss doubled
TotalLoss(mu2, pull_loss, push_loss) == (2 - mu2) * pull_loss + mu2 * push_loss

\* lines 153-169
LMNNLoss(w, XX, tNb, tupb, mu2, mg) ==
    LET DD     == MetricFunc(w, XX)
        D_pull == [r \in DOMAIN tNb |-> DD[tNb[r][1]][tNb[r][2]]]
        D_tn   == [r \in DOMAIN tupb |-> DD[tupb[r][1]][tupb[r][2]]]
        D_im   == [r \in DOMAIN tupb |-> DD[tupb[r][1]][tupb[r][3]]]
    IN  [status |-> "ok", tup |-> tupb, mu2 |-> mu2,
         loss2 |-> TotalLoss(mu2, SeqSum(D_pull), PushLoss(mg, D_tn, D_im)),
         D_pull |-> D_pull, D_tn |-> D_tn, D_im |-> D_im]

NoImposters == [status |-> "none", tup |-> <<>>]

NoLoss == [status |-> "none", tup |-> <<>>, mu2 |-> 0, loss2 |-> 0, D_pull |-> <<>>, D_tn |-> <<>>, D_im |-> <<>>]

\* ------------------------------------------------------------------- fit
\* a Python list as a 0-based array
Array(s) == [i \in 0..(Len(s) - 1) |-> s[i + 1]]

\* t[lo:hi]
PySlice(t, lo, hi) ==
    IF lo >= Len(t) THEN <<>> ELSE SubSeq(t, lo + 1, Min2(hi, Len(t)))

\* line 209 with floor division
NBatchFloor(n, batch_size) == n \div batch_size

\* int(np.ceil(N / batch_size)), lines 209 and 216
NBatch(n, batch_size) == (n + batch_size - 1) \div batch_size

\* every order of the members of S
RECURSIVE OrdersOf(_)
OrdersOf(S) ==
    IF S = {} THEN {<<>>}
    ELSE UNION {{<<i>> \o rest : rest \in OrdersOf(S \ {i})} : i \in S}

\* np.random.permutation(t): the rows of t in any order
NpRandomPermutation(t) == {[r \in DOMAIN t |-> t[p[r]]] : p \in OrdersOf(DOMAIN t)}

\* np.unique(tN_batch, return_inverse=True): the sorted distinct entries, and
\* for each entry of the table its 0-based position among them (lines 273-274)
UniqueIdx(tb) == SortedSeq({tb[r][c] : r \in DOMAIN tb, c \in 1..2})

\* the inverse positions counted from the largest entry instead of the smallest
InverseIdxDescending(idx, tb) ==
    [r \in DOMAIN tb |->
        [c \in 1..2 |-> Len(idx) - (CHOOSE p \in DOMAIN idx : idx[p] = tb[r][c])]]

InverseIdx(idx, tb) ==
    [r \in DOMAIN tb |->
        [c \in 1..2 |-> (CHOOSE p \in DOMAIN idx : idx[p] = tb[r][c]) - 1]]

\* a[idx] (lines 275-276)
Gather(a, idx) == [p \in 0..(Len(idx) - 1) |-> a[idx[p + 1]]]

\* lines 272-282 (308-315 for validation): batch number bb of table, fed to
\* the graph of lines 232-235 under the weight w
RunBatch(kind, table, bb, XX, yy, kk, batch_size, mu2, w, mg) ==
    LET tN_batch == PySlice(table, kk * batch_size * bb, kk * batch_size * (bb + 1))
        idx      == UniqueIdx(tN_batch)
        inv_idx  == InverseIdx(idx, tN_batch)
        X_batch  == Gather(XX, idx)
        y_batch  == Gather(yy, idx)
        tup      == FindImposters(w, X_batch, y_batch, inv_idx, mg)
        out      == LMNNLoss(w, X_batch, inv_idx, tup, mu2, mg)
    IN  [kind |-> kind, tN_batch |-> tN_batch, idx |-> idx, inv_idx |-> inv_idx,
         y_batch |-> y_batch, tup |-> tup, D_tn |-> out.D_tn, D_im |-> out.D_im,
         loss2 |-> out.loss2]

\* the finder before its call
NotCalled == [status |-> "none", tN |-> <<>>]

NoRun == [kind |-> "none", tN_batch |-> <<>>, idx |-> <<>>, inv_idx |-> <<>>,
          y_batch |-> <<>>, tup |-> <<>>, D_tn |-> <<>>, D_im |-> <<>>, loss2 |-> 0]

NoValSet == [given |-> FALSE, X |-> <<>>, y |-> <<>>]

NoArgs == [mu2 |-> 1, maxEpoch |-> 0, batch_size |-> 1, snapshot |-> 1, val_set |-> NoValSet]

\* the stats collector: how often each of its entry points ran, and its stop signal
NoStats == [began |-> 0, terminate |-> FALSE, n_loss |-> 0, n_loss_val |-> 0,
            n_acc_val |-> 0, ended |-> 0, saved |-> 0]

FitNotCalled ==
    /\ args = NoArgs
    /\ pc = "idle"
    /\ e = 0
    /\ b = 0
    /\ tN = <<>>
    /\ tnValOut = NotCalled
    /\ tN_val = <<>>
    /\ global_step = 0
    /\ stats = NoStats
    /\ saved = 0
    /\ lastRun = NoRun
    /\ fed = <<>>
    /\ valEpochs = {}

\* trainer.minimize: one step moves the trainable weight (lines 238-239, 281)
OptimizerStep(w) == IF w = 1 THEN 2 ELSE 1

\* a callback of the stats collector may raise its stop signal
MayTerminate(st) == {st, [st EXCEPT !.terminate = TRUE]}

N_train == NumPoints(y)

N_val == NumPoints(args.val_set.y)

\* line 304
ValidationDue(validation, ee, snapshot, maxEpoch) ==
    validation /\ (ee % snapshot = 0 \/ ee = maxEpoch - 1)

\* line 336 never breaking
LoopBreaksNever(st) == FALSE

\* line 336
LoopBreaks(st) == st.terminate

\* lines 189-260: the target neighbours of both splits, the graph, the
\* initial weights, stats.on_train_begin; line 261 enters the first epoch
CallFit ==
    /\ pc = "idle"
    /\ \E trainOut \in FindTargetNeighboursOutcomes(X, y, k) :
          /\ tnOut' = trainOut
          /\ \E valOut \in (IF trainOut.status = "ok" /\ args.val_set.given
                              THEN FindTargetNeighboursOutcomes(args.val_set.X, args.val_set.y, k)
                              ELSE {NotCalled}) :
                /\ tnValOut' = valOut
                /\ IF trainOut.status = "ok" /\ valOut.status # "ValueError"
                   THEN /\ tN' = trainOut.tN
                        /\ tN_val' = valOut.tN
                        /\ stats' = [stats EXCEPT !.began = @ + 1]
                        /\ pc' = IF args.maxEpoch > 0 THEN "epoch" ELSE "end"
                   ELSE /\ pc' = "raised"
                        /\ UNCHANGED <<tN, tN_val, stats>>
    /\ global_step' = 0
    /\ L' = 1
    /\ e' = 0
    /\ UNCHANGED <<X, y, k, margin, args, b, saved, lastRun, fed, valEpochs>>
    /\ UNCHANGED callVars

\* lines 262-265 and the entry of the batch loop, line 268
EpochBegin ==
    /\ pc = "epoch"
    /\ tN' \in NpRandomPermutation(tN)
    /\ b' = 0
    /\ fed' = <<>>
    /\ lastRun' = NoRun
    /\ pc' = IF NBatch(N_train, args.batch_size) > 0 THEN "batch" ELSE "validate"
    /\ UNCHANGED <<X, y, k, tnOut, L, margin, args, e, tnValOut, tN_val,
                   global_step, stats, saved, valEpochs>>
    /\ UNCHANGED callVars

\* lines 269-291: one training batch and its optimizer step
TrainBatch ==
    /\ pc = "batch"
    /\ LET run == RunBatch("train", tN, b, X, y, k, args.batch_size, args.mu2, L, margin)
       IN  /\ lastRun' = run
           /\ fed' = fed \o run.tN_batch
    /\ L' = OptimizerStep(L)
    /\ global_step' = global_step + 1
    /\ stats' \in MayTerminate([stats EXCEPT !.n_loss = @ + 1])
    /\ b' = b + 1
    /\ pc' = IF b + 1 < NBatch(N_train, args.batch_size) THEN "batch" ELSE "validate"
    /\ UNCHANGED <<X, y, k, tnOut, margin, args, e, tN, tnValOut, tN_val, saved, valEpochs>>
    /\ UNCHANGED callVars

\* line 304, and lines 306-307 when the validation pass is due
ValidationCheck ==
    /\ pc = "validate"
    /\ IF ValidationDue(args.val_set.given, e, args.snapshot, args.maxEpoch)
       THEN /\ tN_val' \in NpRandomPermutation(tN_val)
            /\ b' = 0
            /\ valEpochs' = valEpochs \cup {e}
            /\ pc' = IF NBatch(N_val, args.batch_size) > 0 THEN "valbatch" ELSE "valacc"
       ELSE /\ pc' = "epochend"
            /\ UNCHANGED <<tN_val, b, valEpochs>>
    /\ UNCHANGED <<X, y, k, tnOut, L, margin, args, e, tN, tnValOut, global_step,
                   stats, saved, lastRun, fed>>
    /\ UNCHANGED callVars

\* lines 308-317 with the trainer among the fetches of line 314
ValBatchTraining ==
    /\ pc = "valbatch"
    /\ lastRun' = RunBatch("val", tN_val, b, args.val_set.X, args.val_set.y, k,
                           args.batch_size, args.mu2, L, margin)
    /\ L' = OptimizerStep(L)
    /\ global_step' = global_step + 1
    /\ stats' = [stats EXCEPT !.n_loss_val = @ + 1]
    /\ b' = b + 1
    /\ pc' = IF b + 1 < NBatch(N_val, args.batch_size) THEN "valbatch" ELSE "valacc"
    /\ UNCHANGED <<X, y, k, tnOut, margin, args, e, tN, tnValOut, tN_val,
                   saved, fed, valEpochs>>
    /\ UNCHANGED callVars

\* lines 308-317: one validation batch, no optimizer step
ValBatch ==
    /\ pc = "valbatch"
    /\ lastRun' = RunBatch("val", tN_val, b, args.val_set.X, args.val_set.y, k,
                           args.batch_size, args.mu2, L, margin)
    /\ stats' = [stats EXCEPT !.n_loss_val = @ + 1]
    /\ b' = b + 1
    /\ pc' = IF b + 1 < NBatch(N_val, args.batch_size) THEN "valbatch" ELSE "valacc"
    /\ UNCHANGED <<X, y, k, tnOut, L, margin, args, e, tN, tnValOut, tN_val,
                   global_step, saved, fed, valEpochs>>
    /\ UNCHANGED callVars

\* lines 319-321: the accuracy on the validation split
ValAccuracy ==
    /\ pc = "valacc"
    /\ stats' = [stats EXCEPT !.n_acc_val = @ + 1]
    /\ pc' = "epochend"
    /\ UNCHANGED <<X, y, k, tnOut, L, margin, args, e, b, tN, tnValOut, tN_val,
                   global_step, saved, lastRun, fed, valEpochs>>
    /\ UNCHANGED callVars

\* lines 333-339 and the step of the epoch loop, line 261
EpochEnd ==
    /\ pc = "epochend"
    /\ stats' \in MayTerminate(stats)
    /\ IF LoopBreaks(stats') \/ e + 1 >= args.maxEpoch
       THEN pc' = "end" /\ e' = e
       ELSE pc' = "epoch" /\ e' = e + 1
    /\ UNCHANGED <<X, y, k, tnOut, L, margin, args, b, tN, tnValOut, tN_val,
                   global_step, saved, lastRun, fed, valEpochs>>
    /\ UNCHANGED callVars

\* lines 341-346
TrainEnd ==
    /\ pc = "end"
    /\ stats' = [stats EXCEPT !.ended = @ + 1, !.saved = @ + 1]
    /\ saved' = saved + 1
    /\ pc' = "done"
    /\ UNCHANGED <<X, y, k, tnOut, L, margin, args, e, b, tN, tnValOut, tN_val,
                   global_step, lastRun, fed, valEpochs>>
    /\ UNCHANGED callVars

\* ------------------------------------------- specification: the finder alone
InitTN ==
    /\ \E n \in 1..MaxN :
          /\ X \in [0..(n - 1) -> Pos]
          /\ y \in [0..(n - 1) -> ClassLabels]
    /\ k \in 1..MaxK
    /\ tnOut = NotCalled
    /\ L = 1
    /\ margin = 1
    /\ impOut = NoImposters
    /\ lossOut = NoLoss
    /\ FitNotCalled

CallFindTargetNeighbours ==
    /\ tnOut.status = "none"
    /\ tnOut' \in FindTargetNeighboursOutcomes(X, y, k)
    /\ UNCHANGED <<X, y, k, L, margin, impOut, lossOut>>
    /\ UNCHANGED fitVars

NextTN == CallFindTargetNeighbours

SpecTN == InitTN /\ [][NextTN]_vars


\* ---------------------- specification: the finder, the imposters and the loss
Margins == {0, 1}
MuHalves == {0, 1, 2}
UnitPos == {0, 1}

InitLoss ==
    /\ \E n \in 1..MaxN :
          /\ X \in [0..(n - 1) -> UnitPos]
          /\ y \in [0..(n - 1) -> Labels]
    /\ k = 1
    /\ tnOut = NotCalled
    /\ L = 1
    /\ margin \in Margins
    /\ impOut = NoImposters
    /\ lossOut = NoLoss
    /\ FitNotCalled

CallFindImposters ==
    /\ tnOut.status = "ok"
    /\ impOut.status = "none"
    /\ impOut' = [status |-> "ok", tup |-> FindImposters(L, X, y, tnOut.tN, margin)]
    /\ UNCHANGED <<X, y, k, tnOut, L, margin, lossOut>>
    /\ UNCHANGED fitVars

\* the triplet tables the loss is called with: the imposters found (as fit
\* does, line 235) and every candidate combination, unfiltered
LossTupInputs == {impOut.tup, FullIdx(NumPoints(y), tnOut.tN)}

CallLMNNLoss ==
    /\ impOut.status = "ok"
    /\ lossOut.status = "none"
    /\ \E mu2 \in MuHalves, tupIn \in LossTupInputs :
          lossOut' = LMNNLoss(L, X, tnOut.tN, tupIn, mu2, margin)
    /\ UNCHANGED <<X, y, k, tnOut, L, margin, impOut>>
    /\ UNCHANGED fitVars

NextLoss == CallFindTargetNeighbours \/ CallFindImposters \/ CallLMNNLoss

SpecLoss == InitLoss /\ [][NextLoss]_vars

\* ------------- specification: two distant classes under the identity transformer
SepPos == {0, 10, 20}

InitSep ==
    /\ \E n \in 1..MaxN :
          /\ X \in [0..(n - 1) -> SepPos]
          /\ y \in [0..(n - 1) -> ClassLabels]
    /\ k = 1
    /\ tnOut = NotCalled
    /\ L = 1
    /\ margin = 1
    /\ impOut = NoImposters
    /\ lossOut = NoLoss
    /\ FitNotCalled

SpecSep == InitSep /\ [][NextLoss]_vars

\* ------------------------------------------------------- specification: fit
MaxEpoch == 3

\* batch sizes up to one above the largest training split; snapshot periods
BatchSizes == 1..5

Snapshots == 1..2

\* training splits: two interleaved classes; one class of coinciding points
\* with k = 2; a class too small for k
TrainSets ==
    {[X |-> Array(<<0, 1, 1, 2>>), y |-> Array(<<0, 1, 0, 1>>), k |-> 1],
     [X |-> Array(<<0, 0, 0>>),    y |-> Array(<<0, 0, 0>>),    k |-> 2],
     [X |-> Array(<<0, 1, 2>>),    y |-> Array(<<0, 0, 1>>),    k |-> 1]}

\* validation splits: none; one class of two; two classes of one
ValSets ==
    {NoValSet,
     [given |-> TRUE, X |-> Array(<<0, 1>>), y |-> Array(<<0, 0>>)],
     [given |-> TRUE, X |-> Array(<<0, 1>>), y |-> Array(<<0, 1>>)]}

InitFit ==
    /\ \E t \in TrainSets : X = t.X /\ y = t.y /\ k = t.k
    /\ tnOut = NotCalled
    /\ L = 1
    /\ margin = 1
    /\ impOut = NoImposters
    /\ lossOut = NoLoss
    /\ args \in [mu2 : {1}, maxEpoch : 0..MaxEpoch, batch_size : BatchSizes,
                  snapshot : Snapshots, val_set : ValSets]
    /\ pc = "idle"
    /\ e = 0
    /\ b = 0
    /\ tN = <<>>
    /\ tnValOut = NotCalled
    /\ tN_val = <<>>
    /\ global_step = 0
    /\ stats = NoStats
    /\ saved = 0
    /\ lastRun = NoRun
    /\ fed = <<>>
    /\ valEpochs = {}

NextFit ==
    \/ CallFit
    \/ EpochBegin
    \/ TrainBatch
    \/ ValidationCheck
    \/ ValBatch
    \/ ValAccuracy
    \/ EpochEnd
    \/ TrainEnd

SpecFit == InitFit /\ [][NextFit]_vars

\* ------------------------------------------------- claims about the finder
\* the members of the class of label c
ClassSize(c) == Cardinality({i \in DOMAIN y : y[i] = c})

EveryClassHasKPlus1 == \A i \in DOMAIN y : ClassSize(y[i]) >= k + 1

\* the rows of the returned table whose first column is observation i
RowsOf(i) == {r \in DOMAIN tnOut.tN : tnOut.tN[r][1] = i}

\* C1: when every class has at least k+1 members, findTargetNeighbours
\* returns a table of exactly N*k rows and both indices of every row carry
\* the same label.
C1_RowsShareLabel ==
    (tnOut.status # "none" /\ EveryClassHasKPlus1) =>
        /\ tnOut.status = "ok"
        /\ Len(tnOut.tN) = NumPoints(y) * k
        /\ \A r \in DOMAIN tnOut.tN :
              /\ tnOut.tN[r][1] \in DOMAIN y
              /\ tnOut.tN[r][2] \in DOMAIN y
              /\ y[tnOut.tN[r][1]] = y[tnOut.tN[r][2]]

\* a table was returned for two classes whose members interleave
C1_Witness ==
    /\ tnOut.status = "ok"
    /\ Len(tnOut.tN) = NumPoints(y) * k
    /\ Cardinality({y[i] : i \in DOMAIN y}) = 2
    /\ \E i \in DOMAIN y : i + 1 \in DOMAIN y /\ y[i] > y[i + 1]

\* C8: when some class has fewer than k+1 members the call fails with an
\* error and returns no table.
C8_SmallClassFails ==
    (tnOut.status # "none" /\ ~EveryClassHasKPlus1) =>
        /\ tnOut.status = "ValueError"
        /\ tnOut.tN = <<>>

\* the call failed although another class had enough members
C8_Witness ==
    /\ tnOut.status = "ValueError"
    /\ \E i \in DOMAIN y : ClassSize(y[i]) >= k + 1
    /\ \E i \in DOMAIN y : ClassSize(y[i]) = k

\* C10: in the returned table every observation is the first column of
\* exactly k rows, paired with k distinct points other than itself.
C10_EveryPointHasKNeighbours ==
    tnOut.status = "ok" =>
        \A i \in DOMAIN y :
            /\ Cardinality(RowsOf(i)) = k
            /\ Cardinality({tnOut.tN[r][2] : r \in RowsOf(i)}) = k
            /\ \A r \in RowsOf(i) : tnOut.tN[r][2] # i


\* ------------------------------------- claims about the imposters and the loss
\* the distance matrix both functions compute from X (lines 104 and 156)
DNow == MetricFunc(L, X)

CountRows(tab, row) == Cardinality({r \in DOMAIN tab : tab[r] = row})

\* C2: every returned triplet (i, target, imposter) has (i, target) a row of
\* tN, an imposter whose label differs from the target's, and
\* D[i,imposter] <= margin + D[i,target]; the bound is not strict, triplets
\* meeting it with equality are returned.
C2_TripletsAreImposters ==
    impOut.status = "ok" =>
        \A r \in DOMAIN impOut.tup :
            LET t == impOut.tup[r]
            IN  /\ \E q \in DOMAIN tnOut.tN : tnOut.tN[q] = <<t[1], t[2]>>
                /\ t[3] \in DOMAIN y
                /\ y[t[3]] # y[t[2]]
                /\ DNow[t[1]][t[3]] <= margin + DNow[t[1]][t[2]]

\* a triplet on the boundary was returned, for the default margin
C2_Witness ==
    /\ impOut.status = "ok"
    /\ margin = 1
    /\ \E r \in DOMAIN impOut.tup :
          DNow[impOut.tup[r][1]][impOut.tup[r][3]]
              = margin + DNow[impOut.tup[r][1]][impOut.tup[r][2]]

\* C3: for every row (i, target) of tN and every point j whose label differs
\* from the target's and with D[i,j] <= margin + D[i,target], the triplet
\* (i, target, j) is returned, once per such row of tN.
C3_NoImposterMissed ==
    impOut.status = "ok" =>
        \A q \in DOMAIN tnOut.tN, j \in DOMAIN y :
            LET i == tnOut.tN[q][1]
                t == tnOut.tN[q][2]
            IN  (y[j] # y[t] /\ DNow[i][j] <= margin + DNow[i][t]) =>
                    CountRows(impOut.tup, <<i, t, j>>) = CountRows(tnOut.tN, <<i, t>>)

\* the sum of Term over the rows of tab
SumRows(tab, Term(_)) ==
    LET RECURSIVE Upto(_)
        Upto(n) == IF n = 0 THEN 0 ELSE Term(tab[n]) + Upto(n - 1)
    IN  Upto(Len(tab))

PullTerm(row) == DNow[row[1]][row[2]]

PushTerm(row) == margin + DNow[row[1]][row[2]] - DNow[row[1]][row[3]]

\* C4: the loss is (1-mu)*sum(D[tN]) + mu*sum(margin + D[i,target] -
\* D[i,imposter]), unclamped; with mu = 0 it is the pull sum whatever tup is,
\* with mu = 1 the push sum whatever tN is.  (mu = mu2/2, loss2 = 2*loss.)
C4_LossIsWeightedSum ==
    lossOut.status = "ok" =>
        LET pull == SumRows(tnOut.tN, PullTerm)
            push == SumRows(lossOut.tup, PushTerm)
        IN  /\ lossOut.loss2 = (2 - lossOut.mu2) * pull + lossOut.mu2 * push
            /\ lossOut.mu2 = 0 => lossOut.loss2 = 2 * pull
            /\ lossOut.mu2 = 2 => lossOut.loss2 = 2 * push

\* the loss was computed with mu = 1 over triplets of which one is no
\* violation, so that clamping would have changed it
C4_Witness ==
    /\ lossOut.status = "ok"
    /\ lossOut.mu2 = 2
    /\ SumRows(tnOut.tN, PullTerm) > 0
    /\ \E r \in DOMAIN lossOut.tup : PushTerm(lossOut.tup[r]) < 0

\* exactly two classes, every point at distance 10 or more from every point
\* of the other class
TwoClassesSeparatedBy10 ==
    /\ Cardinality({y[i] : i \in DOMAIN y}) = 2
    /\ \A i, j \in DOMAIN y : y[i] # y[j] => Abs(X[i] - X[j]) >= 10

\* the push term of the loss computed over the imposters found
PushOfFound == lossOut.tup = impOut.tup => PushLoss(margin, lossOut.D_tn, lossOut.D_im) = 0

\* C9 as stated: identity transformer, margin 1, two classes separated by
\* distance 10: no imposters are found and the push term is 0.
C9_SeparatedMeansNoImposters ==
    (L = 1 /\ margin = 1 /\ TwoClassesSeparatedBy10) =>
        /\ impOut.status = "ok" => impOut.tup = <<>>
        /\ lossOut.status = "ok" => PushOfFound

\* every target neighbour is less than 9 away from its observation
TargetsCloserThan9 ==
    \A q \in DOMAIN tnOut.tN : Abs(X[tnOut.tN[q][1]] - X[tnOut.tN[q][2]]) < 9

\* C9 amended: the same, provided every target neighbour pair of tN is less
\* than 9 apart (the separation less the margin).
C9_SeparatedAndCompactMeansNoImposters ==
    (L = 1 /\ margin = 1 /\ TwoClassesSeparatedBy10 /\ TargetsCloserThan9) =>
        /\ impOut.status = "ok" => impOut.tup = <<>>
        /\ lossOut.status = "ok" => PushOfFound

\* the loss was computed for two separated, compact classes, the second
\* exactly 10 away from the first
C9_Witness ==
    /\ TwoClassesSeparatedBy10
    /\ TargetsCloserThan9
    /\ \E i, j \in DOMAIN y : y[i] # y[j] /\ Abs(X[i] - X[j]) = 10
    /\ impOut.status = "ok"
    /\ lossOut.status = "ok"
    /\ lossOut.tup = impOut.tup
    /\ Cardinality({y[i] : i \in DOMAIN y}) = 2


\* ---------------------------------------------------------- claims about fit
CountOf(t, row) == Cardinality({r \in DOMAIN t : t[r] = row})

\* s and t hold the same rows the same number of times
SameRows(s, t) ==
    /\ Len(s) = Len(t)
    /\ \A r \in DOMAIN s : CountOf(s, s[r]) = CountOf(t, s[r])

InEpochLoop == pc \in {"epoch", "batch", "validate", "valbatch", "valacc", "epochend"}

\* C5: every epoch runs exactly ceil(N_train/batch_size) training batches (one
\* when batch_size exceeds the dataset); each batch's slice of tN is non-empty
\* and indexes only observations of the training split; the slices of an epoch
\* together hold every row of the table computed before training exactly once,
\* the permutation changing the order of the rows only.
C5_EpochCoversTable ==
    LET nb == NBatch(N_train, args.batch_size)
    IN  /\ nb * args.batch_size >= N_train
        /\ (nb - 1) * args.batch_size < N_train
        /\ args.batch_size > N_train => nb = 1
        /\ InEpochLoop => SameRows(tN, tnOut.tN)
        /\ pc = "batch" =>
              /\ b < nb
              /\ global_step = e * nb + b
              /\ PySlice(tN, k * args.batch_size * b, k * args.batch_size * (b + 1)) # <<>>
        /\ lastRun.kind = "train" =>
              /\ lastRun.tN_batch # <<>>
              /\ \A p \in DOMAIN lastRun.idx : lastRun.idx[p] \in DOMAIN X
        /\ pc = "validate" =>
              /\ b = nb
              /\ global_step = (e + 1) * nb
              /\ SameRows(fed, tnOut.tN)

\* a second epoch with batch_size above the dataset size and k = 2: one batch
\* has taken the whole permuted table
C5_Witness ==
    /\ pc = "validate"
    /\ e >= 1
    /\ k = 2
    /\ args.batch_size > N_train
    /\ b = 1
    /\ Len(fed) = N_train * k
    /\ tN # tnOut.tN

\* the epochs fit has executed once it is past the loop
ExecutedEpochs == IF args.maxEpoch = 0 THEN {} ELSE 0..e

\* C6: with a validation split, the validation pass (validation batches, then
\* the accuracy) has run in exactly the executed epochs that are a multiple of
\* snapshot or the last one executed, whether the loop ended at maxEpoch or by
\* the stop signal; without a validation split it has run in none.
C6_ValidationInSnapshotAndFinalEpochs ==
    pc = "done" =>
        /\ valEpochs = IF args.val_set.given
                          THEN {ee \in ExecutedEpochs : ee % args.snapshot = 0 \/ ee = e}
                          ELSE {}
        /\ stats.n_acc_val = Cardinality(valEpochs)
        /\ stats.n_loss_val = Cardinality(valEpochs) * NBatch(N_val, args.batch_size)

\* C7: the stop signal is examined only at the end of an epoch: a batch loop
\* always runs to its last batch, an epoch end that sees the signal leaves the
\* loop, no training batch runs after the loop is left, and however the loop
\* ends the next step of fit finalizes the stats and saves the weights, which
\* happens exactly once.
C7_StopOnlyAtEpochBoundary ==
    /\ [][pc = "batch" /\ b + 1 < NBatch(N_train, args.batch_size) => pc' = "batch"]_vars
    /\ [][pc # "end" /\ pc' = "end" =>
             \/ pc = "epochend" /\ (stats'.terminate \/ e + 1 = args.maxEpoch)
             \/ pc = "idle" /\ args.maxEpoch = 0]_vars
    /\ [][pc = "epochend" /\ stats'.terminate => pc' = "end"]_vars
    /\ [][(pc = "end" \/ pc = "done") => (global_step' = global_step /\ L' = L)]_vars
    /\ [](pc \in {"end", "done"} =>
             global_step = Cardinality(ExecutedEpochs) * NBatch(N_train, args.batch_size))
    /\ [](pc # "done" => saved = 0 /\ stats.ended = 0 /\ stats.saved = 0)
    /\ [](pc = "done" => saved = 1 /\ stats.ended = 1 /\ stats.saved = 1)
    /\ [](pc = "end" => ENABLED TrainEnd)

\* fit finished early: the signal stood while batches remained, every batch of
\* the epoch still ran, and epochs were left unexecuted
C7_Witness ==
    /\ pc = "done"
    /\ stats.terminate
    /\ e + 1 < args.maxEpoch
    /\ NBatch(N_train, args.batch_size) >= 2
    /\ global_step = (e + 1) * NBatch(N_train, args.batch_size)
    /\ saved = 1

InValidationPass == pc = "validate" \/ pc = "valbatch" \/ pc = "valacc"

\* C11: the weights get one optimizer step per training batch and none
\* otherwise: the step counter always equals the number of training batches
\* run, after fit it equals the epochs executed times ceil(N_train/batch_size),
\* weights and counter move only in a training batch, by one step, and the
\* validation batches and the accuracy evaluation leave both unchanged.
C11_OneStepPerTrainingBatch ==
    /\ [](global_step = stats.n_loss)
    /\ [](pc = "done" =>
             global_step = Cardinality(ExecutedEpochs) * NBatch(N_train, args.batch_size))
    /\ [][(pc = "batch") => (global_step' = global_step + 1 /\ L' = OptimizerStep(L))]_vars
    /\ [][(pc # "batch" /\ pc # "idle") => (global_step' = global_step /\ L' = L)]_vars
    /\ [][InValidationPass => (global_step' = global_step /\ L' = L)]_vars

\* fit has finished after two or more epochs of two or more training batches
\* with validation batches and accuracy evaluations in between
C11_Witness ==
    /\ pc = "done"
    /\ e >= 1
    /\ NBatch(N_train, args.batch_size) >= 2
    /\ stats.n_loss_val >= 2
    /\ stats.n_acc_val >= 2
    /\ global_step = stats.n_loss
    /\ global_step >= 4

\* the labels of the split the latest batch was drawn from
BatchSourceLabels == IF lastRun.kind = "val" THEN args.val_set.y ELSE y

\* C12: in every training and validation batch idx holds each referenced
\* point once, inv_idx has one row per row of the slice with entries in
\* 0..len(idx)-1, idx[inv_idx[r,c]] = tN_batch[r,c] everywhere, so
\* y_batch[inv_idx[r,c]] = y[tN_batch[r,c]] and each remapped row links two
\* points of one label.
C12_RemapPreservesPairs ==
    lastRun.kind \in {"train", "val"} =>
        /\ \A p, q \in DOMAIN lastRun.idx : p # q => lastRun.idx[p] # lastRun.idx[q]
        /\ {lastRun.idx[p] : p \in DOMAIN lastRun.idx}
              = {lastRun.tN_batch[r][c] : r \in DOMAIN lastRun.tN_batch, c \in 1..2}
        /\ Len(lastRun.inv_idx) = Len(lastRun.tN_batch)
        /\ \A r \in DOMAIN lastRun.inv_idx :
              /\ \A c \in 1..2 :
                    /\ lastRun.inv_idx[r][c] \in 0..(Len(lastRun.idx) - 1)
                    /\ lastRun.idx[lastRun.inv_idx[r][c] + 1] = lastRun.tN_batch[r][c]
                    /\ lastRun.y_batch[lastRun.inv_idx[r][c]]
                          = BatchSourceLabels[lastRun.tN_batch[r][c]]
              /\ lastRun.y_batch[lastRun.inv_idx[r][1]] = lastRun.y_batch[lastRun.inv_idx[r][2]]

\* a training batch of a two-class split that references only some of the
\* points, the first point not among them, one point by two rows
C12_Witness ==
    /\ lastRun.kind = "train"
    /\ Cardinality({y[i] : i \in DOMAIN y}) = 2
    /\ Len(lastRun.tN_batch) >= 2
    /\ Len(lastRun.idx) < N_train
    /\ Len(lastRun.idx) < 2 * Len(lastRun.tN_batch)
    /\ lastRun.idx[1] # 0
    /\ lastRun.inv_idx # lastRun.tN_batch

\* a validation batch remapped
C12_WitnessVal ==
    /\ lastRun.kind = "val"
    /\ lastRun.tN_batch # <<>>

\* the push summands of the latest loss call, one per row of its triplet table
PushSummands == [r \in DOMAIN lossOut.D_tn |-> margin + lossOut.D_tn[r] - lossOut.D_im[r]]

\* C13: when tf_LMNN_loss is given the triplets tf_findImposters returned for
\* the same distances and margin, every push summand
\* margin + D[i,target] - D[i,imposter] is >= 0, so the push term is never
\* negative, and it is 0 when no triplet was found.
C13_PushSummandsNonNegative ==
    (lossOut.status = "ok" /\ lossOut.tup = impOut.tup) =>
        /\ Len(PushSummands) = Len(impOut.tup)
        /\ \A r \in DOMAIN PushSummands :
              /\ PushSummands[r] = PushTerm(impOut.tup[r])
              /\ PushSummands[r] >= 0
        /\ PushLoss(margin, lossOut.D_tn, lossOut.D_im) >= 0
        /\ impOut.tup = <<>> => PushLoss(margin, lossOut.D_tn, lossOut.D_im) = 0

\* the loss of found triplets of which one meets the bound with equality
\* (summand 0) and one lies strictly inside the margin (summand above 0)
C13_Witness ==
    /\ lossOut.status = "ok"
    /\ lossOut.tup = impOut.tup
    /\ \E r \in DOMAIN PushSummands : PushSummands[r] = 0
    /\ \E r \in DOMAIN PushSummands : PushSummands[r] > 0
    /\ PushLoss(margin, lossOut.D_tn, lossOut.D_im) > 0

====
